---- MODULE Spec2Model ----
(***************************************************************************)
(* Verification model of the user repository of clean-architecture:        *)
(* the in-memory store (MockUserRepository) and the relational adapter     *)
(* (PostgresUserRepository), as state machines over the User entity.       *)
(*                                                                         *)
(* Encoding of Go values:                                                  *)
(*   - a user id is a natural: 0 is the empty string, n > 0 is the string  *)
(*     "user_n" (what fmt.Sprintf("user_%d", n) yields for the clock       *)
(*     reading n); a caller may supply any of these strings itself;        *)
(*   - a time.Time is a natural: 0 is the zero time (IsZero), n > 0 a      *)
(*     clock reading;                                                      *)
(*   - a *entities.User is an address into heap; 0 is the nil pointer.     *)
(***************************************************************************)
EXTENDS Integers, Sequences, FiniteSets, TLC

\* ------------------------------------------------------------------ bounds
MaxClock == 2
MaxObj == 2
MaxHeld == 1
MaxWrites == 1
NumCallers == 2
MaxInFlight == 1

Emails == {"", "a"}
Names == {"", "n"}
Ids == 0..MaxClock
Times == 0..MaxClock
Addr == 1..MaxObj
Nil == 0

\* --------------------------------------------------------------- the entity
\* entities.User; ZeroUser is the Go zero value &entities.User{}
UserVals == [ID : Ids, Email : Emails, Name : Names, CreatedAt : Times, UpdatedAt : Times]

\* the users a caller passes in: a timestamp is left zero or set by the caller
\* (MaxClock is in the future until the clock reaches it)
CallerTimes == {0, MaxClock}

\* the users of TestMockUserRepository_Create all carry a name
CreateNames == {"n"}

CallerVals == [ID : Ids, Email : Emails, Name : CreateNames, CreatedAt : CallerTimes, UpdatedAt : CallerTimes]

\* the users of the repository's tests: &entities.User{Email: ..., Name: ...}
LiteralVals == [ID : {0}, Email : Emails, Name : Names, CreatedAt : {0}, UpdatedAt : {0}]

\* the fields Update reads of its argument
UpdateArgs == [ID : Ids, Email : Emails, Name : Names, CreatedAt : {0}, UpdatedAt : {0}]

ZeroUser == [ID |-> 0, Email |-> "", Name |-> "", CreatedAt |-> 0, UpdatedAt |-> 0]

\* the two errors of the repository, by their message
ErrAlreadyExists == "user with this email already exists"

ErrNotFound == "user not found"

NoErr == "nil"

VARIABLE heap      \* heap[a]: the entities.User object at address a
VARIABLE held      \* the addresses the calling code holds a pointer to
VARIABLE origin    \* origin[a]: "free", "arg" (built by the caller or handed to Create) or "read" (returned by a read)
VARIABLE users     \* MockUserRepository.users: id -> address
VARIABLE clock     \* the last reading of time.Now()
VARIABLE ret       \* the last call: its operation, arguments and results
VARIABLE writes    \* how many times the calling code has assigned to a field of a user
VARIABLE mutex     \* MockUserRepository.mutex: the writer inside (0: none) and the readers inside
VARIABLE callers   \* the goroutines that call the store concurrently

VARIABLE hist      \* history: the ids ever created (ever) and those deleted and not created since (gone)
VARIABLE impl      \* the repository wired in: "mem" (MockUserRepository) or "pg" (PostgresUserRepository)
VARIABLE rows      \* the users table: primary key -> row
VARIABLE pgcalls   \* the calls of the relational adapter that are between two statements
VARIABLE pret      \* the last call of the relational adapter that returned

\* the state of the relational adapter
pgvars == <<impl, rows, pgcalls, pret>>

\* what the calls of one caller on the in-memory store leave alone
others == <<mutex, callers, pgvars>>

vars == <<heap, held, origin, users, clock, ret, writes, mutex, callers, hist, impl, rows, pgcalls, pret>>

Range(f) == {f[k] : k \in DOMAIN f}

\* ------------------------------------------------------ MockUserRepository
\* Each operator is the body of one method, run under r.mutex: it takes the
\* heap and the map and returns the heap and the map it leaves, with the error.

\* a Create that stamps updatedAt alone
MockCreate_NoCreatedAt(h, us, a, tid, now) ==
    LET u0 == h[a]
        u1 == [u0 EXCEPT !.ID = IF u0.ID = 0 THEN tid ELSE u0.ID,
                         !.UpdatedAt = IF u0.UpdatedAt = 0 THEN now ELSE u0.UpdatedAt]
        h1 == [h EXCEPT ![a] = u1]
    IN  IF \E k \in DOMAIN us : h1[us[k]].Email = u1.Email
        THEN [heap |-> h1, users |-> us, err |-> ErrAlreadyExists]
        ELSE [heap |-> h1, users |-> (u1.ID :> a) @@ us, err |-> NoErr]

\* a Create that stores the user without looking at the emails in the store
MockCreate_NoEmailCheck(h, us, a, tid, now) ==
    LET u0 == h[a]
        u1 == [u0 EXCEPT !.ID = IF u0.ID = 0 THEN tid ELSE u0.ID,
                         !.CreatedAt = IF u0.CreatedAt = 0 THEN now ELSE u0.CreatedAt,
                         !.UpdatedAt = IF u0.UpdatedAt = 0 THEN now ELSE u0.UpdatedAt]
        h1 == [h EXCEPT ![a] = u1]
    IN  [heap |-> h1, users |-> (u1.ID :> a) @@ us, err |-> NoErr]

\* Create: tid is the reading of time.Now().UnixNano() for the id, now the
\* reading of time.Now() for the timestamps.
MockCreate(h, us, a, tid, now) ==
    LET u0 == h[a]
        u1 == [u0 EXCEPT !.ID = IF u0.ID = 0 THEN tid ELSE u0.ID,
                         !.CreatedAt = IF u0.CreatedAt = 0 THEN now ELSE u0.CreatedAt,
                         !.UpdatedAt = IF u0.UpdatedAt = 0 THEN now ELSE u0.UpdatedAt]
        h1 == [h EXCEPT ![a] = u1]
    IN  IF \E k \in DOMAIN us : h1[us[k]].Email = u1.Email
        THEN [heap |-> h1, users |-> us, err |-> ErrAlreadyExists]
        ELSE [heap |-> h1, users |-> (u1.ID :> a) @@ us, err |-> NoErr]

\* GetByID: the address of the record it copies, or Nil
MockGetByID(us, id) ==
    IF id \notin DOMAIN us THEN Nil ELSE us[id]

\* GetByEmail: the keys whose record matches; the map iteration order picks one
MockEmailMatches(h, us, email) ==
    {k \in DOMAIN us : h[us[k]].Email = email}

\* an Update that inserts the user when its id has no record
MockUpdate_Upsert(h, us, user, fresh, now) ==
    LET n == [ID |-> user.ID, Email |-> user.Email, Name |-> user.Name,
              CreatedAt |-> IF user.ID \in DOMAIN us THEN h[us[user.ID]].CreatedAt ELSE now,
              UpdatedAt |-> now]
    IN  [heap |-> [h EXCEPT ![fresh] = n], users |-> (user.ID :> fresh) @@ us, err |-> NoErr]

\* an Update that stamps createdAt as well
MockUpdate_Restamp(h, us, user, fresh, now) ==
    IF user.ID \notin DOMAIN us
    THEN [heap |-> h, users |-> us, err |-> ErrNotFound]
    ELSE LET n == [ID |-> user.ID, Email |-> user.Email, Name |-> user.Name,
                   CreatedAt |-> now, UpdatedAt |-> now]
         IN  [heap |-> [h EXCEPT ![fresh] = n], users |-> (user.ID :> fresh) @@ us, err |-> NoErr]

\* Update: stores a new object at address fresh; user is read, never retained
MockUpdate(h, us, user, fresh, now) ==
    IF user.ID \notin DOMAIN us
    THEN [heap |-> h, users |-> us, err |-> ErrNotFound]
    ELSE LET existingUser == h[us[user.ID]]
             n == [ID |-> user.ID, Email |-> user.Email, Name |-> user.Name,
                   CreatedAt |-> existingUser.CreatedAt, UpdatedAt |-> now]
         IN  [heap |-> [h EXCEPT ![fresh] = n],
              users |-> [us EXCEPT ![user.ID] = fresh],
              err |-> NoErr]

\* a Delete that empties the map
MockDelete_Clear(h, us, id) ==
    IF id \notin DOMAIN us
    THEN [heap |-> h, users |-> us, err |-> ErrNotFound]
    ELSE [heap |-> h, users |-> <<>>, err |-> NoErr]

\* Delete
MockDelete(h, us, id) ==
    IF id \notin DOMAIN us
    THEN [heap |-> h, users |-> us, err |-> ErrNotFound]
    ELSE [heap |-> h, users |-> [k \in DOMAIN us \ {id} |-> us[k]], err |-> NoErr]

\* ------------------------------------------------------------ Go's memory
\* An object lives while the caller or the map points to it; the others are
\* collected (their slot returns to the zero value).
Live(us, hd) == hd \cup Range(us)

Collect(h, us, hd) == [a \in Addr |-> IF a \in Live(us, hd) THEN h[a] ELSE ZeroUser]

CollectOrigin(o, us, hd) == [a \in Addr |-> IF a \in Live(us, hd) THEN o[a] ELSE "free"]

FreeAddrs == Addr \ Live(users, held)

NewAddr == CHOOSE a \in FreeAddrs : \A b \in FreeAddrs : a <= b

\* what the store holds, by value
StoreView == [k \in DOMAIN users |-> heap[users[k]]]

\* the orders in which a range over the map may visit its keys
Orders(S) == {o \in [1..Cardinality(S) -> S] : \A i, j \in 1..Cardinality(S) : o[i] = o[j] => i = j}

\* List: the keys whose records the loop appends, visiting the map in order o
RECURSIVE ListLoop(_, _, _, _, _, _)
ListLoop(o, i, count, acc, limit, offset) ==
    IF i > Len(o) THEN acc
    ELSE IF count >= offset
         THEN IF Len(acc) >= limit
              THEN acc
              ELSE ListLoop(o, i + 1, count + 1, Append(acc, o[i]), limit, offset)
         ELSE ListLoop(o, i + 1, count + 1, acc, limit, offset)

\* a List that returns every record, whatever limit and offset say
MockList_All(us, o, limit, offset) == o

MockList(us, o, limit, offset) == ListLoop(o, 1, 0, <<>>, limit, offset)

\* the history after a call op(id) that returned err
HistAfter(h, op, id, err) ==
    IF err # NoErr THEN h
    ELSE IF op = "Create" THEN [ever |-> h.ever \cup {id}, gone |-> h.gone \ {id}]
    ELSE IF op = "Delete" THEN [ever |-> h.ever, gone |-> h.gone \cup {id}]
    ELSE h

\* ------------------------------------------------- calls on the in-memory store
\* ret.a is the pointer the call was given or hands back (Nil: a nil pointer),
\* ret.id the id it was given or (Create, GetByEmail) the id of the user,
\* ret.list the addresses List returns, ret.arg the user passed to Create or
\* Update as it was before the call, ret.out that user as Create left it.
Ret(op, a, id, err, list) ==
    [op |-> op, a |-> a, id |-> id, err |-> err, list |-> list, arg |-> ZeroUser, out |-> ZeroUser]

\* repo.Create(ctx, &entities.User{v}): the caller builds the user, calls
\* Create and keeps no pointer to it
Create(v, tid, now) ==
    /\ UNCHANGED <<writes, others>>
    /\ FreeAddrs # {}
    /\ LET a == NewAddr
           r == MockCreate([heap EXCEPT ![a] = v], users, a, tid, now)
       IN  /\ users' = r.users
           /\ heap' = Collect(r.heap, r.users, held)
           /\ origin' = CollectOrigin([origin EXCEPT ![a] = "arg"], r.users, held)
           /\ ret' = [Ret("Create", IF r.err = NoErr THEN a ELSE Nil, r.heap[a].ID, r.err, <<>>)
                         EXCEPT !.arg = v, !.out = r.heap[a]]
    /\ clock' = now
    /\ UNCHANGED held
    /\ hist' = HistAfter(hist, "Create", ret'.id, ret'.err)

\* repo.GetByID(ctx, id); the caller looks at the copy and lets it go
GetByID(id) ==
    /\ UNCHANGED <<writes, others>>
    /\ ret' = Ret("GetByID", MockGetByID(users, id), id, NoErr, <<>>)
    /\ UNCHANGED <<heap, held, origin, users, clock>>
    /\ UNCHANGED hist

GetByEmail(email) ==
    /\ UNCHANGED <<writes, others>>
    /\ LET m == MockEmailMatches(heap, users, email)
       IN  IF m = {}
           THEN ret' = Ret("GetByEmail", Nil, 0, NoErr, <<>>)
           ELSE \E k \in m : ret' = Ret("GetByEmail", users[k], k, NoErr, <<>>)
    /\ UNCHANGED <<heap, held, origin, users, clock>>
    /\ UNCHANGED hist

List(limit, offset) ==
    /\ UNCHANGED <<writes, others>>
    /\ \E o \in Orders(DOMAIN users) :
          LET ks == MockList(users, o, limit, offset)
          IN  ret' = Ret("List", Nil, 0, NoErr, [i \in 1..Len(ks) |-> users[ks[i]]])
    /\ UNCHANGED <<heap, held, origin, users, clock>>
    /\ UNCHANGED hist

\* the address Update's new object gets: the old object's when nothing else points to it
UpdateAddr(id) ==
    IF id \in DOMAIN users /\ users[id] \notin held /\ \A k \in DOMAIN users \ {id} : users[k] # users[id]
    THEN users[id]
    ELSE IF FreeAddrs # {} THEN NewAddr ELSE Nil

Update(user, now) ==
    /\ UNCHANGED <<writes, others>>
    /\ user.ID \in DOMAIN users => UpdateAddr(user.ID) # Nil
    /\ LET r == MockUpdate(heap, users, user, UpdateAddr(user.ID), now)
       IN  /\ users' = r.users
           /\ heap' = Collect(r.heap, r.users, held)
           /\ origin' = CollectOrigin([a \in Addr |-> IF r.err = NoErr /\ a = UpdateAddr(user.ID) THEN "arg" ELSE origin[a]], r.users, held)
           /\ ret' = [Ret("Update", Nil, user.ID, r.err, <<>>) EXCEPT !.arg = user]
    /\ clock' = now
    /\ UNCHANGED held
    /\ UNCHANGED hist

Delete(id) ==
    /\ UNCHANGED <<writes, others>>
    /\ LET r == MockDelete(heap, users, id)
       IN  /\ users' = r.users
           /\ heap' = Collect(r.heap, r.users, held)
           /\ origin' = CollectOrigin(origin, r.users, held)
           /\ ret' = Ret("Delete", Nil, id, r.err, <<>>)
    /\ UNCHANGED <<held, clock>>
    /\ hist' = HistAfter(hist, "Delete", ret'.id, ret'.err)

\* the goroutines of TestMockUserRepository_Concurrency; each runs
\* Create, GetByID, Update, Delete of its own user, in that order
Callers == 1..NumCallers

CallerStart == [step |-> 1, in |-> FALSE, id |-> 0, create |-> "-", get |-> "-", update |-> "-", delete |-> "-"]

\* a goroutine with no call of the relational adapter in flight
NoCall == [pc |-> "idle", user |-> ZeroUser]

\* what the last call on the relational adapter answered: its error, and
\* whether its *User result is nil; for List, the limit and offset it was
\* given and the ids of the users it returned
PRet(op, err, isNil) ==
    [op |-> op, err |-> err, nil |-> isNil, limit |-> 0, offset |-> 0, list |-> <<>>]

\* NewMockUserRepository: an empty map; the users table: no rows
InitStores ==
    /\ hist = [ever |-> {}, gone |-> {}]
    /\ rows = <<>>
    /\ pgcalls = [p \in Callers |-> NoCall]
    /\ pret = PRet("Init", NoErr, TRUE)
    /\ mutex = [w |-> 0, r |-> {}]
    /\ callers = [p \in Callers |-> CallerStart]
    /\ heap = [a \in Addr |-> ZeroUser]
    /\ held = {}
    /\ origin = [a \in Addr |-> "free"]
    /\ users = <<>>
    /\ clock = 1
    /\ ret = Ret("Init", Nil, 0, NoErr, <<>>)
    /\ writes = 0

Init == InitStores /\ impl = "mem"

Next ==
    \/ \E v \in CallerVals, tid \in clock..MaxClock : \E now \in tid..MaxClock : Create(v, tid, now)
    \/ \E id \in Ids : GetByID(id)
    \/ \E e \in Emails : GetByEmail(e)
    \/ \E limit \in -1..2, offset \in -1..2 : List(limit, offset)
    \/ \E user \in UpdateArgs, now \in clock..MaxClock : Update(user, now)
    \/ \E id \in Ids : Delete(id)

Spec == Init /\ [][Next]_vars

\* ------------------------------------- a caller that keeps and writes pointers
\* user := &entities.User{v}
NewUser(v) ==
    /\ FreeAddrs # {}
    /\ Cardinality(held) < MaxHeld
    /\ heap' = [heap EXCEPT ![NewAddr] = v]
    /\ held' = held \cup {NewAddr}
    /\ origin' = [origin EXCEPT ![NewAddr] = "arg"]
    /\ ret' = Ret("New", NewAddr, 0, NoErr, <<>>)
    /\ UNCHANGED <<users, clock, writes, others>>
    /\ UNCHANGED hist

\* an assignment to one field of a user the caller holds (user.Name = ...),
\* without a call to the store
CallerSet(a, v) ==
    /\ a \in held
    /\ writes < MaxWrites
    /\ \E f \in DOMAIN ZeroUser : v = [heap[a] EXCEPT ![f] = v[f]] /\ v # heap[a]
    /\ heap' = [heap EXCEPT ![a] = v]
    /\ writes' = writes + 1
    /\ ret' = Ret("Set", a, 0, NoErr, <<>>)
    /\ UNCHANGED <<held, origin, users, clock, others>>
    /\ UNCHANGED hist

\* the caller lets go of a pointer
Drop(a) ==
    /\ a \in held
    /\ held' = held \ {a}
    /\ heap' = Collect(heap, users, held')
    /\ origin' = CollectOrigin(origin, users, held')
    /\ ret' = Ret("Drop", Nil, 0, NoErr, <<>>)
    /\ UNCHANGED <<users, clock, writes, others>>
    /\ UNCHANGED hist

\* repo.Create(ctx, user) with a pointer the caller keeps
CreateHeld(a, tid, now) ==
    /\ a \in held
    /\ LET r == MockCreate(heap, users, a, tid, now)
       IN  /\ users' = r.users
           /\ heap' = Collect(r.heap, r.users, held)
           /\ origin' = CollectOrigin([origin EXCEPT ![a] = "arg"], r.users, held)
           /\ ret' = [Ret("Create", a, r.heap[a].ID, r.err, <<>>)
                         EXCEPT !.arg = heap[a], !.out = r.heap[a]]
    /\ clock' = now
    /\ UNCHANGED <<held, writes, others>>
    /\ hist' = HistAfter(hist, "Create", ret'.id, ret'.err)

\* the copy a read returns: &entities.User{ID: user.ID, ...} of the record at src
ReadCopy(h, src) ==
    [ID |-> h[src].ID, Email |-> h[src].Email, Name |-> h[src].Name,
     CreatedAt |-> h[src].CreatedAt, UpdatedAt |-> h[src].UpdatedAt]

\* a read that hands back the pointer the map holds
KeepCopy_Shared(op, src, id) ==
    /\ Cardinality(held) < MaxHeld
    /\ held' = held \cup {src}
    /\ origin' = [origin EXCEPT ![src] = "read"]
    /\ ret' = Ret(op, src, id, NoErr, <<>>)
    /\ UNCHANGED heap

\* a read that found the record at src: the caller keeps the pointer it returns
KeepCopy(op, src, id) ==
    /\ FreeAddrs # {}
    /\ Cardinality(held) < MaxHeld
    /\ heap' = [heap EXCEPT ![NewAddr] = ReadCopy(heap, src)]
    /\ held' = held \cup {NewAddr}
    /\ origin' = [origin EXCEPT ![NewAddr] = "read"]
    /\ ret' = Ret(op, NewAddr, id, NoErr, <<>>)

GetByIDKeep(id) ==
    /\ MockGetByID(users, id) # Nil
    /\ KeepCopy("GetByID", MockGetByID(users, id), id)
    /\ UNCHANGED <<users, clock, writes, others>>
    /\ UNCHANGED hist

GetByEmailKeep(email) ==
    /\ \E k \in MockEmailMatches(heap, users, email) : KeepCopy("GetByEmail", users[k], k)
    /\ UNCHANGED <<users, clock, writes, others>>
    /\ UNCHANGED hist

\* List of which the caller keeps the first element
ListKeep(limit, offset) ==
    /\ \E o \in Orders(DOMAIN users) :
          LET ks == MockList(users, o, limit, offset)
          IN  /\ Len(ks) > 0
              /\ KeepCopy("List", users[ks[1]], ks[1])
    /\ UNCHANGED <<users, clock, writes, others>>
    /\ UNCHANGED hist

NextAlias ==
    \/ \E v \in LiteralVals : NewUser(v)
    \/ \E a \in Addr, v \in UserVals : CallerSet(a, v)
    \/ \E a \in Addr : Drop(a)
    \/ \E a \in Addr, tid \in clock..MaxClock : \E now \in tid..MaxClock : CreateHeld(a, tid, now)
    \/ \E id \in Ids : GetByIDKeep(id)
    \/ \E e \in Emails : GetByEmailKeep(e)
    \/ \E limit \in 1..2, offset \in 0..1 : ListKeep(limit, offset)
    \/ \E id \in Ids : GetByID(id)
    \/ \E id \in Ids : Delete(id)

SpecAlias == Init /\ [][NextAlias]_vars

\* ------------------------------------------------------ concurrent callers
\* fmt.Sprintf("user%d@example.com", id): a different email for each goroutine
CallerEmail(p) == ToString(p)

\* the script of a goroutine: the lock each step takes
StepWrites(step) == step \in {1, 3, 4}

\* a lock that lets every caller in at once
ConcAcquire_NoWait(p) ==
    /\ callers[p].step <= 4
    /\ ~callers[p].in
    /\ IF StepWrites(callers[p].step)
       THEN mutex' = [mutex EXCEPT !.w = p]
       ELSE mutex' = [mutex EXCEPT !.r = @ \cup {p}]
    /\ callers' = [callers EXCEPT ![p].in = TRUE]
    /\ UNCHANGED <<heap, held, origin, users, clock, ret, writes>>
    /\ UNCHANGED hist
    /\ UNCHANGED pgvars

\* r.mutex.Lock() / r.mutex.RLock(): the call waits until the lock is free
ConcAcquire(p) ==
    /\ callers[p].step <= 4
    /\ ~callers[p].in
    /\ mutex.w = 0
    /\ IF StepWrites(callers[p].step)
       THEN mutex.r = {} /\ mutex' = [mutex EXCEPT !.w = p]
       ELSE mutex' = [mutex EXCEPT !.r = @ \cup {p}]
    /\ callers' = [callers EXCEPT ![p].in = TRUE]
    /\ UNCHANGED <<heap, held, origin, users, clock, ret, writes>>
    /\ UNCHANGED hist
    /\ UNCHANGED pgvars

\* a return that leaves the lock held
Unlocked_Never(p) == mutex

\* the deferred r.mutex.Unlock() / r.mutex.RUnlock()
Unlocked(p) == [w |-> IF mutex.w = p THEN 0 ELSE mutex.w, r |-> mutex.r \ {p}]

\* repo.Create(ctx, user) of a user with the given email, and its return
ConcCreateWith(p, email, tid, now) ==
    /\ callers[p].step = 1 /\ callers[p].in
    /\ FreeAddrs # {}
    /\ LET a == NewAddr
           v == [ZeroUser EXCEPT !.Email = email, !.Name = "n"]
           r == MockCreate([heap EXCEPT ![a] = v], users, a, tid, now)
       IN  /\ users' = r.users
           /\ heap' = Collect(r.heap, r.users, held)
           /\ origin' = CollectOrigin([origin EXCEPT ![a] = "arg"], r.users, held)
           /\ ret' = [Ret("Create", IF r.err = NoErr THEN a ELSE Nil, r.heap[a].ID, r.err, <<>>)
                         EXCEPT !.arg = v, !.out = r.heap[a]]
           /\ callers' = [callers EXCEPT ![p].step = 2, ![p].in = FALSE,
                                         ![p].id = r.heap[a].ID, ![p].create = r.err]
    /\ clock' = now
    /\ mutex' = Unlocked(p)
    /\ UNCHANGED <<held, writes>>
    /\ hist' = HistAfter(hist, "Create", ret'.id, ret'.err)
    /\ UNCHANGED pgvars

\* repo.GetByID(ctx, user.ID), and the test's look at retrieved.Email
ConcGetByID(p) ==
    /\ callers[p].step = 2 /\ callers[p].in
    /\ LET g == MockGetByID(users, callers[p].id)
           res == IF g = Nil THEN "nil user"
                  ELSE IF heap[g].Email = CallerEmail(p) THEN NoErr ELSE "other user"
       IN  /\ ret' = Ret("GetByID", g, callers[p].id, NoErr, <<>>)
           /\ callers' = [callers EXCEPT ![p].step = 3, ![p].in = FALSE, ![p].get = res]
    /\ mutex' = Unlocked(p)
    /\ UNCHANGED <<heap, held, origin, users, clock, writes>>
    /\ UNCHANGED hist
    /\ UNCHANGED pgvars

\* user.Name = "Updated ..."; repo.Update(ctx, user)
ConcUpdate(p, now) ==
    /\ callers[p].step = 3 /\ callers[p].in
    /\ LET user == [ZeroUser EXCEPT !.ID = callers[p].id, !.Email = CallerEmail(p)]
       IN  /\ user.ID \in DOMAIN users => UpdateAddr(user.ID) # Nil
           /\ LET r == MockUpdate(heap, users, user, UpdateAddr(user.ID), now)
              IN  /\ users' = r.users
                  /\ heap' = Collect(r.heap, r.users, held)
                  /\ origin' = CollectOrigin(origin, r.users, held)
                  /\ ret' = [Ret("Update", Nil, user.ID, r.err, <<>>) EXCEPT !.arg = user]
                  /\ callers' = [callers EXCEPT ![p].step = 4, ![p].in = FALSE, ![p].update = r.err]
    /\ clock' = now
    /\ mutex' = Unlocked(p)
    /\ UNCHANGED <<held, writes>>
    /\ UNCHANGED hist
    /\ UNCHANGED pgvars

\* repo.Delete(ctx, user.ID)
ConcDelete(p) ==
    /\ callers[p].step = 4 /\ callers[p].in
    /\ LET r == MockDelete(heap, users, callers[p].id)
       IN  /\ users' = r.users
           /\ heap' = Collect(r.heap, r.users, held)
           /\ origin' = CollectOrigin(origin, r.users, held)
           /\ ret' = Ret("Delete", Nil, callers[p].id, r.err, <<>>)
           /\ callers' = [callers EXCEPT ![p].step = 5, ![p].in = FALSE, ![p].delete = r.err]
    /\ mutex' = Unlocked(p)
    /\ UNCHANGED <<held, clock, writes>>
    /\ hist' = HistAfter(hist, "Delete", ret'.id, ret'.err)
    /\ UNCHANGED pgvars

\* repo.Create(ctx, user) of the goroutine's own user
ConcCreate(p, tid, now) == ConcCreateWith(p, CallerEmail(p), tid, now)

NextConc ==
    \/ \E p \in Callers : ConcAcquire(p)
    \/ \E p \in Callers, tid \in clock..MaxClock : \E now \in tid..MaxClock : ConcCreate(p, tid, now)
    \/ \E p \in Callers : ConcGetByID(p)
    \/ \E p \in Callers, now \in clock..MaxClock : ConcUpdate(p, now)
    \/ \E p \in Callers : ConcDelete(p)

SpecConc == Init /\ [][NextConc]_vars

\* goroutines whose users may carry the same email, so that Create also takes
\* its already-exists return
NextFair ==
    \/ \E p \in Callers : ConcAcquire(p)
    \/ \E p \in Callers, q \in Callers, tid \in clock..MaxClock :
          \E now \in tid..MaxClock : ConcCreateWith(p, CallerEmail(q), tid, now)
    \/ \E p \in Callers : ConcGetByID(p)
    \/ \E p \in Callers, now \in clock..MaxClock : ConcUpdate(p, now)
    \/ \E p \in Callers : ConcDelete(p)

\* what one goroutine does next
CallerNext(p) ==
    \/ ConcAcquire(p)
    \/ \E q \in Callers, tid \in clock..MaxClock :
          \E now \in tid..MaxClock : ConcCreateWith(p, CallerEmail(q), tid, now)
    \/ ConcGetByID(p)
    \/ \E now \in clock..MaxClock : ConcUpdate(p, now)
    \/ ConcDelete(p)

\* the Go scheduler runs every goroutine that can run
SpecFair == Init /\ [][NextFair]_vars /\ \A p \in Callers : WF_vars(CallerNext(p))

\* -------------------------------------------------- PostgresUserRepository
\* The users table of entities.User: id is the primary key, email carries a
\* unique index, and the gorm.DeletedAt column makes Delete a soft delete
\* (the row stays, marked) and puts "deleted_at IS NULL" on every query and
\* update; the unique index still spans the marked rows.

\* a failure of the backing store other than "record not found"
ErrDB == "connection refused"

\* the database's own error for a violated primary key or unique index
ErrDuplicateKey == "duplicate key value violates unique constraint"

RowOf(user) ==
    [Email |-> user.Email, Name |-> user.Name, CreatedAt |-> user.CreatedAt,
     UpdatedAt |-> user.UpdatedAt, Deleted |-> FALSE]

LiveIds(t) == {k \in DOMAIN t : ~t[k].Deleted}

\* Where("email = ?", email).First(...): the live rows that match
PgByEmail(t, email) == {k \in LiveIds(t) : t[k].Email = email}

\* the unique index on email: another row, marked deleted or not, has the email
EmailTaken(t, email, id) == \E k \in DOMAIN t \ {id} : t[k].Email = email

\* db.Create(user): INSERT INTO users
PgInsert(t, user) ==
    IF user.ID \in DOMAIN t \/ EmailTaken(t, user.Email, user.ID)
    THEN [rows |-> t, err |-> ErrDuplicateKey]
    ELSE [rows |-> (user.ID :> RowOf(user)) @@ t, err |-> NoErr]

\* db.Save(user): UPDATE users SET (all fields) WHERE id = ? AND deleted_at IS
\* NULL and, when that touches no row, INSERT ... ON CONFLICT (id) DO UPDATE
\* SET (all fields but created_at)
PgSave(t, user) ==
    IF EmailTaken(t, user.Email, user.ID)
    THEN [rows |-> t, err |-> ErrDuplicateKey]
    ELSE IF user.ID \in LiveIds(t)
    THEN [rows |-> [t EXCEPT ![user.ID] = RowOf(user)], err |-> NoErr]
    ELSE IF user.ID \in DOMAIN t
    THEN [rows |-> [t EXCEPT ![user.ID] = [RowOf(user) EXCEPT !.CreatedAt = t[user.ID].CreatedAt]],
          err |-> NoErr]
    ELSE [rows |-> (user.ID :> RowOf(user)) @@ t, err |-> NoErr]

\* Where("id = ?", id).Delete(&entities.User{}): UPDATE users SET deleted_at
\* = now WHERE id = ? AND deleted_at IS NULL; n is RowsAffected
PgSoftDelete(t, id) ==
    IF id \in LiveIds(t)
    THEN [rows |-> [t EXCEPT ![id].Deleted = TRUE], n |-> 1]
    ELSE [rows |-> t, n |-> 0]

\* generateID: 16 random bytes, an id no row and no call in flight has; ids are
\* opaque, so the smallest unused one stands for any of them
FreshIds ==
    LET unused == (Ids \ {0}) \ (DOMAIN rows \cup {pgcalls[p].user.ID : p \in Callers})
    IN  {id \in unused : \A j \in unused : id <= j}

\* the goroutine that makes the next call: goroutines are interchangeable, so
\* the lowest one without a call in flight stands for any of them; at most
\* MaxInFlight calls are between their two statements at a time
NextCaller(p) ==
    /\ pgcalls[p].pc = "idle"
    /\ \A q \in Callers : pgcalls[q].pc = "idle" => p <= q
    /\ Cardinality({q \in Callers : pgcalls[q].pc # "idle"}) < MaxInFlight

\* Create up to its lookup by email; db is the outcome of the statement
PgCreateLookup(p, v, db, now) ==
    /\ NextCaller(p)
    /\ IF db = NoErr /\ PgByEmail(rows, v.Email) # {}
       THEN /\ pret' = PRet("Create", ErrAlreadyExists, TRUE)
            /\ UNCHANGED <<pgcalls, clock>>
       ELSE /\ v.ID = 0 => FreshIds # {}
            /\ \E id \in IF v.ID = 0 THEN FreshIds ELSE {v.ID} :
                  pgcalls' = [pgcalls EXCEPT ![p] =
                      [pc |-> "createInsert",
                       user |-> [v EXCEPT !.ID = id,
                                          !.CreatedAt = IF v.CreatedAt = 0 THEN now ELSE v.CreatedAt,
                                          !.UpdatedAt = IF v.UpdatedAt = 0 THEN now ELSE v.UpdatedAt]]]
            /\ clock' = now
            /\ UNCHANGED pret
    /\ UNCHANGED <<heap, held, origin, users, ret, writes, mutex, callers, hist, impl, rows>>

\* Create's insert
PgCreateInsert(p, db) ==
    /\ pgcalls[p].pc = "createInsert"
    /\ LET user == pgcalls[p].user
           r == IF db = NoErr THEN PgInsert(rows, user) ELSE [rows |-> rows, err |-> db]
       IN  /\ rows' = r.rows
           /\ pret' = PRet("Create", r.err, TRUE)
           /\ hist' = HistAfter(hist, "Create", user.ID, r.err)
    /\ pgcalls' = [pgcalls EXCEPT ![p] = NoCall]
    /\ UNCHANGED <<heap, held, origin, users, clock, ret, writes, mutex, callers, impl>>

\* a GetByID that reports a missing row as an error
PgGetByID_NotFound(id, db) ==
    /\ pret' = IF db # NoErr THEN PRet("GetByID", db, TRUE)
               ELSE IF id \notin LiveIds(rows) THEN PRet("GetByID", ErrNotFound, TRUE)
               ELSE PRet("GetByID", NoErr, FALSE)
    /\ UNCHANGED <<heap, held, origin, users, clock, ret, writes, mutex, callers, hist, impl, rows, pgcalls>>

PgGetByID(id, db) ==
    /\ pret' = IF db # NoErr THEN PRet("GetByID", db, TRUE)
               ELSE IF id \notin LiveIds(rows) THEN PRet("GetByID", NoErr, TRUE)
               ELSE PRet("GetByID", NoErr, FALSE)
    /\ UNCHANGED <<heap, held, origin, users, clock, ret, writes, mutex, callers, hist, impl, rows, pgcalls>>

PgGetByEmail(email, db) ==
    /\ IF db # NoErr THEN pret' = PRet("GetByEmail", db, TRUE)
       ELSE IF PgByEmail(rows, email) = {}
       THEN pret' = PRet("GetByEmail", NoErr, TRUE)
       ELSE pret' = PRet("GetByEmail", NoErr, FALSE)
    /\ UNCHANGED <<heap, held, origin, users, clock, ret, writes, mutex, callers, hist, impl, rows, pgcalls>>

\* Update up to its lookup by id
PgUpdateLookup(p, v, db, now) ==
    /\ NextCaller(p)
    /\ IF db # NoErr
       THEN /\ pret' = PRet("Update", db, TRUE)
            /\ UNCHANGED <<pgcalls, clock>>
       ELSE IF v.ID \notin LiveIds(rows)
       THEN /\ pret' = PRet("Update", ErrNotFound, TRUE)
            /\ UNCHANGED <<pgcalls, clock>>
       ELSE /\ pgcalls' = [pgcalls EXCEPT ![p] =
                 [pc |-> "updateSave",
                  user |-> [v EXCEPT !.UpdatedAt = now, !.CreatedAt = rows[v.ID].CreatedAt]]]
            /\ clock' = now
            /\ UNCHANGED pret
    /\ UNCHANGED <<heap, held, origin, users, ret, writes, mutex, callers, hist, impl, rows>>

\* Update's Save
PgUpdateSave(p, db) ==
    /\ pgcalls[p].pc = "updateSave"
    /\ LET user == pgcalls[p].user
           r == IF db = NoErr THEN PgSave(rows, user) ELSE [rows |-> rows, err |-> db]
       IN  /\ rows' = r.rows
           /\ pret' = PRet("Update", r.err, TRUE)
    /\ pgcalls' = [pgcalls EXCEPT ![p] = NoCall]
    /\ UNCHANGED <<heap, held, origin, users, clock, ret, writes, mutex, callers, hist, impl>>

PgDelete(id, db) ==
    /\ LET r == IF db = NoErr THEN PgSoftDelete(rows, id) ELSE [rows |-> rows, n |-> 0]
           err == IF db # NoErr THEN db ELSE IF r.n = 0 THEN ErrNotFound ELSE NoErr
       IN  /\ rows' = r.rows
           /\ pret' = PRet("Delete", err, TRUE)
           /\ hist' = HistAfter(hist, "Delete", id, err)
    /\ UNCHANGED <<heap, held, origin, users, clock, ret, writes, mutex, callers, impl, pgcalls>>

\* what a statement may answer: it runs, or the backing store fails
DbOutcomes == {NoErr, ErrDB}

\* whichever repository the application wires in
InitRepo == InitStores /\ impl \in {"mem", "pg"}

NextRepo ==
    \/ \E v \in LiteralVals, tid \in clock..MaxClock : \E now \in tid..MaxClock : impl = "mem" /\ Create(v, tid, now)
    \/ \E id \in Ids : impl = "mem" /\ GetByID(id)
    \/ \E e \in Emails : impl = "mem" /\ GetByEmail(e)
    \/ \E user \in UpdateArgs, now \in clock..MaxClock : impl = "mem" /\ Update(user, now)
    \/ \E id \in Ids : impl = "mem" /\ Delete(id)
    \/ \E p \in Callers, v \in LiteralVals, db \in DbOutcomes, now \in clock..MaxClock :
          impl = "pg" /\ PgCreateLookup(p, v, db, now)
    \/ \E p \in Callers, db \in DbOutcomes : impl = "pg" /\ PgCreateInsert(p, db)
    \/ \E id \in Ids, db \in DbOutcomes : impl = "pg" /\ PgGetByID(id, db)
    \/ \E e \in Emails, db \in DbOutcomes : impl = "pg" /\ PgGetByEmail(e, db)
    \/ \E p \in Callers, v \in UpdateArgs, db \in DbOutcomes, now \in clock..MaxClock :
          impl = "pg" /\ PgUpdateLookup(p, v, db, now)
    \/ \E p \in Callers, db \in DbOutcomes : impl = "pg" /\ PgUpdateSave(p, db)
    \/ \E id \in Ids, db \in DbOutcomes : impl = "pg" /\ PgDelete(id, db)

SpecRepo == InitRepo /\ [][NextRepo]_vars

\* ------------------------------------------- the two repositories, side by side
\* One caller issues its calls one after another, each to both repositories.
\* No statement fails and no call overlaps another, so a call of the relational
\* adapter runs its statements back to back.

\* PostgresUserRepository.Create, uninterrupted; id is what generateID yields
PgCreate(t, v, id, now) ==
    IF PgByEmail(t, v.Email) # {}
    THEN [rows |-> t, err |-> ErrAlreadyExists]
    ELSE PgInsert(t, [v EXCEPT !.ID = IF v.ID = 0 THEN id ELSE v.ID,
                               !.CreatedAt = IF v.CreatedAt = 0 THEN now ELSE v.CreatedAt,
                               !.UpdatedAt = IF v.UpdatedAt = 0 THEN now ELSE v.UpdatedAt])

\* PostgresUserRepository.Update, uninterrupted
PgUpdate(t, v, now) ==
    IF v.ID \notin LiveIds(t)
    THEN [rows |-> t, err |-> ErrNotFound]
    ELSE PgSave(t, [v EXCEPT !.UpdatedAt = now, !.CreatedAt = t[v.ID].CreatedAt])

\* Limit(limit).Offset(offset).Find(&users): gorm writes LIMIT when limit >= 0
\* and OFFSET when offset > 0; the statement has no ORDER BY, so the rows come
\* in an order o the database picks
PgFind(o, limit, offset) ==
    LET skip == IF offset > 0 THEN offset ELSE 0
        rest == IF skip >= Len(o) THEN <<>> ELSE SubSeq(o, skip + 1, Len(o))
    IN  IF limit >= 0 /\ limit < Len(rest) THEN SubSeq(rest, 1, limit) ELSE rest

\* a Create with an empty id gets an id neither store has used: the clock
\* reading of the in-memory store differs from call to call, and the caller
\* knows the user by the id each store gave it
BothCreate(v, tid, now) ==
    /\ FreeAddrs # {}
    /\ v.ID = 0 => tid \notin hist.ever \cup DOMAIN rows
    /\ LET a == NewAddr
           r == MockCreate([heap EXCEPT ![a] = v], users, a, tid, now)
           g == PgCreate(rows, v, tid, now)
       IN  /\ users' = r.users
           /\ heap' = Collect(r.heap, r.users, held)
           /\ origin' = CollectOrigin([origin EXCEPT ![a] = "arg"], r.users, held)
           /\ ret' = [Ret("Create", IF r.err = NoErr THEN a ELSE Nil, r.heap[a].ID, r.err, <<>>)
                         EXCEPT !.arg = v, !.out = r.heap[a]]
           /\ hist' = HistAfter(hist, "Create", r.heap[a].ID, r.err)
           /\ rows' = g.rows
           /\ pret' = PRet("Create", g.err, TRUE)
    /\ clock' = now
    /\ UNCHANGED <<held, writes, mutex, callers, impl, pgcalls>>

BothGetByID(id) ==
    /\ ret' = Ret("GetByID", MockGetByID(users, id), id, NoErr, <<>>)
    /\ pret' = PRet("GetByID", NoErr, id \notin LiveIds(rows))
    /\ UNCHANGED <<heap, held, origin, users, clock, writes, mutex, callers, hist, impl, rows, pgcalls>>

BothGetByEmail(email) ==
    /\ LET m == MockEmailMatches(heap, users, email)
       IN  IF m = {}
           THEN ret' = Ret("GetByEmail", Nil, 0, NoErr, <<>>)
           ELSE \E k \in m : ret' = Ret("GetByEmail", users[k], k, NoErr, <<>>)
    /\ pret' = PRet("GetByEmail", NoErr, PgByEmail(rows, email) = {})
    /\ UNCHANGED <<heap, held, origin, users, clock, writes, mutex, callers, hist, impl, rows, pgcalls>>

BothUpdate(user, now) ==
    /\ user.ID \in DOMAIN users => UpdateAddr(user.ID) # Nil
    /\ LET r == MockUpdate(heap, users, user, UpdateAddr(user.ID), now)
           g == PgUpdate(rows, user, now)
       IN  /\ users' = r.users
           /\ heap' = Collect(r.heap, r.users, held)
           /\ origin' = CollectOrigin([a \in Addr |-> IF r.err = NoErr /\ a = UpdateAddr(user.ID) THEN "arg" ELSE origin[a]], r.users, held)
           /\ ret' = [Ret("Update", Nil, user.ID, r.err, <<>>) EXCEPT !.arg = user]
           /\ rows' = g.rows
           /\ pret' = PRet("Update", g.err, TRUE)
    /\ clock' = now
    /\ UNCHANGED <<held, writes, mutex, callers, hist, impl, pgcalls>>

BothDelete(id) ==
    /\ LET r == MockDelete(heap, users, id)
           g == PgSoftDelete(rows, id)
       IN  /\ users' = r.users
           /\ heap' = Collect(r.heap, r.users, held)
           /\ origin' = CollectOrigin(origin, r.users, held)
           /\ ret' = Ret("Delete", Nil, id, r.err, <<>>)
           /\ hist' = HistAfter(hist, "Delete", id, r.err)
           /\ rows' = g.rows
           /\ pret' = PRet("Delete", IF g.n = 0 THEN ErrNotFound ELSE NoErr, TRUE)
    /\ UNCHANGED <<held, clock, writes, mutex, callers, impl, pgcalls>>

BothList(limit, offset) ==
    /\ \E o \in Orders(DOMAIN users) :
          LET ks == MockList(users, o, limit, offset)
          IN  ret' = Ret("List", Nil, 0, NoErr, [i \in 1..Len(ks) |-> users[ks[i]]])
    /\ \E o \in Orders(LiveIds(rows)) :
          pret' = [PRet("List", NoErr, FALSE) EXCEPT !.limit = limit, !.offset = offset,
                                                      !.list = PgFind(o, limit, offset)]
    /\ UNCHANGED <<heap, held, origin, users, clock, writes, mutex, callers, hist, impl, rows, pgcalls>>

InitBoth == InitStores /\ impl = "both"

NextBoth ==
    \/ \E v \in LiteralVals, tid \in clock..MaxClock : \E now \in tid..MaxClock : BothCreate(v, tid, now)
    \/ \E id \in Ids : BothGetByID(id)
    \/ \E e \in Emails : BothGetByEmail(e)
    \/ \E user \in UpdateArgs, now \in clock..MaxClock : BothUpdate(user, now)
    \/ \E id \in Ids : BothDelete(id)
    \/ \E limit \in -1..2, offset \in -1..2 : BothList(limit, offset)

SpecBoth == InitBoth /\ [][NextBoth]_vars


\* ------------------------------------------------ the use case on the store
\* UserUseCase over the in-memory store, one call at a time.

\* (*User).UpdateName, (*User).UpdateEmail: t is the reading of time.Now()
UpdateName(u, name, t) == [u EXCEPT !.Name = name, !.UpdatedAt = t]

UpdateEmail(u, email, t) == [u EXCEPT !.Email = email, !.UpdatedAt = t]

\* an UpdateUser that overwrites both fields, empty or not
UpdateFields_Always(u, name, email, t) ==
    UpdateEmail(UpdateName(u, name, t), email, t)

\* UpdateUser, "Update fields if provided": what it does to the copy it read
UpdateFields(u, name, email, t) ==
    LET u1 == IF name # "" THEN UpdateName(u, name, t) ELSE u
    IN  IF email # "" THEN UpdateEmail(u1, email, t) ELSE u1

\* uc.UpdateUser(ctx, id, name, email): GetByID, the field updates (clock
\* reading t), then Update (clock reading now). ret.arg holds the id, name
\* and email it was given, ret.out the copy GetByID handed it.
UpdateUser(id, name, email, t, now) ==
    /\ UNCHANGED <<writes, others, held, hist>>
    /\ t <= now
    /\ LET a == MockGetByID(users, id)
       IN  IF a = Nil
           THEN /\ ret' = [Ret("UpdateUser", Nil, id, ErrNotFound, <<>>)
                              EXCEPT !.arg = [ZeroUser EXCEPT !.ID = id, !.Name = name, !.Email = email]]
                /\ UNCHANGED <<heap, origin, users, clock>>
           ELSE LET user == UpdateFields(heap[a], name, email, t)
                    r == MockUpdate(heap, users, user, UpdateAddr(id), now)
                IN  /\ UpdateAddr(id) # Nil
                    /\ users' = r.users
                    /\ heap' = Collect(r.heap, r.users, held)
                    /\ origin' = CollectOrigin([x \in Addr |-> IF r.err = NoErr /\ x = UpdateAddr(id) THEN "arg" ELSE origin[x]], r.users, held)
                    /\ ret' = [Ret("UpdateUser", Nil, id, r.err, <<>>)
                                  EXCEPT !.arg = [ZeroUser EXCEPT !.ID = id, !.Name = name, !.Email = email],
                                         !.out = heap[a]]
                    /\ clock' = now

NextUC ==
    \/ \E v \in LiteralVals, tid \in clock..MaxClock : \E now \in tid..MaxClock : Create(v, tid, now)
    \/ \E id \in Ids : Delete(id)
    \/ \E id \in Ids, name \in Names, email \in Emails, t \in clock..MaxClock :
          \E now \in t..MaxClock : UpdateUser(id, name, email, t, now)

SpecUC == Init /\ [][NextUC]_vars


\* --------------------------------------------------------- the HTTP handlers
\* UserHandler over UserUseCase over the in-memory store, one request at a
\* time. db is what the repository's calls answer during the request: NoErr,
\* or a failure of the backing store (the calls then change nothing).

\* the status line of a response written by render.JSON when the handler has
\* set no status: net/http answers 200 OK
StatusOK == 200

ErrEmailRequired == "email is required"

ErrNameRequired == "name is required"

ErrIDRequired == "User ID is required"

ErrBadBody == "Invalid request body"

\* fmt.Errorf("<msg>: %w", err)
Wrap(msg, err) == msg \o ": " \o err

\* a query parameter, as the characters of its text: missing, "x", "-",
\* "1x", "0", "1", "-1", "10"
QueryStrs == {<<>>, <<"x">>, <<"-">>, <<"1", "x">>, <<"0">>, <<"1">>, <<"-", "1">>, <<"1", "0">>}

Digits == {"0", "1"}

DigitVal(c) == IF c = "0" THEN 0 ELSE 1

RECURSIVE DecVal(_, _)
DecVal(s, acc) == IF s = <<>> THEN acc ELSE DecVal(Tail(s), acc * 10 + DigitVal(Head(s)))

\* strconv.Atoi: an optional sign, then one digit or more
Atoi(s) ==
    LET signed == s # <<>> /\ Head(s) \in {"-", "+"}
        body == IF signed THEN Tail(s) ELSE s
    IN  IF body = <<>> \/ \E i \in 1..Len(body) : body[i] \notin Digits
        THEN [ok |-> FALSE, n |-> 0]
        ELSE [ok |-> TRUE, n |-> IF signed /\ Head(s) = "-" THEN 0 - DecVal(body, 0) ELSE DecVal(body, 0)]

\* the limit default of ListUsers
DefaultLimit == 10

\* the offset default of ListUsers
DefaultOffset == 0

\* a ListUsers that passes every number on
ParseLimit_Any(limitStr) ==
    LET l == Atoi(limitStr)
    IN  IF limitStr # <<>> /\ l.ok THEN l.n ELSE DefaultLimit

\* ListUsers: the limit it passes on
ParseLimit(limitStr) ==
    LET l == Atoi(limitStr)
    IN  IF limitStr # <<>> /\ l.ok /\ l.n > 0 THEN l.n ELSE DefaultLimit

\* ListUsers: the offset it passes on
ParseOffset(offsetStr) ==
    LET o == Atoi(offsetStr)
    IN  IF offsetStr # <<>> /\ o.ok /\ o.n >= 0 THEN o.n ELSE DefaultOffset

\* the response of a handler: ret.err is the message of an error response
\* ("nil" for a success response), ret.code the status line, ret.limit and
\* ret.offset what ListUsers was called with (called: whether it was),
\* ret.query the limit and offset parameters of the request
HRet(op, id, err, list) ==
    [op |-> op, a |-> Nil, id |-> id, err |-> err, list |-> list, arg |-> ZeroUser, out |-> ZeroUser,
     code |-> StatusOK, status |-> IF err = NoErr THEN "success" ELSE "error",
     called |-> FALSE, limit |-> 0, offset |-> 0, query |-> <<>>]

HandlerOps == {"CreateUser", "GetUser", "UpdateUser", "DeleteUser", "ListUsers"}

\* UserUseCase.GetUserByID: the error it returns
GetUserByID(us, id, db) ==
    IF db # NoErr THEN Wrap("failed to get user", db)
    ELSE IF MockGetByID(us, id) = Nil THEN ErrNotFound
    ELSE NoErr

\* GET /api/v1/users/{id}
HandleGetUser(id, db) ==
    /\ ret' = HRet("GetUser", id, IF id = 0 THEN ErrIDRequired ELSE GetUserByID(users, id, db), <<>>)
    /\ UNCHANGED <<heap, held, origin, users, clock, writes, others, hist>>

\* POST /api/v1/users: badBody is a body json cannot decode; t, tid and now
\* are the clock readings of NewUser and of Create
HandleCreateUser(badBody, email, name, t, tid, now, db) ==
    /\ UNCHANGED <<writes, others, held>>
    /\ t <= tid /\ tid <= now
    /\ LET early == IF badBody THEN ErrBadBody
                    ELSE IF email = "" THEN ErrEmailRequired
                    ELSE IF name = "" THEN ErrNameRequired
                    ELSE IF db = NoErr /\ MockEmailMatches(heap, users, email) # {} THEN ErrAlreadyExists
                    ELSE IF db # NoErr THEN Wrap("failed to create user", db)
                    ELSE NoErr
       IN  IF early # NoErr
           THEN /\ ret' = HRet("CreateUser", 0, early, <<>>)
                /\ UNCHANGED <<heap, origin, users, clock, hist>>
           ELSE /\ FreeAddrs # {}
                /\ LET a == NewAddr
                       v == [ID |-> 0, Email |-> email, Name |-> name, CreatedAt |-> t, UpdatedAt |-> t]
                       r == MockCreate([heap EXCEPT ![a] = v], users, a, tid, now)
                   IN  /\ users' = r.users
                       /\ heap' = Collect(r.heap, r.users, held)
                       /\ origin' = CollectOrigin([origin EXCEPT ![a] = "arg"], r.users, held)
                       /\ ret' = HRet("CreateUser", r.heap[a].ID,
                                      IF r.err = NoErr THEN NoErr ELSE Wrap("failed to create user", r.err), <<>>)
                       /\ hist' = HistAfter(hist, "Create", r.heap[a].ID, r.err)
                /\ clock' = now

\* PUT /api/v1/users/{id}
HandleUpdateUser(id, badBody, name, email, t, now, db) ==
    /\ UNCHANGED <<writes, others, held, hist>>
    /\ t <= now
    /\ LET early == IF id = 0 THEN ErrIDRequired
                    ELSE IF badBody THEN ErrBadBody
                    ELSE GetUserByID(users, id, db)
       IN  IF early # NoErr
           THEN /\ ret' = HRet("UpdateUser", id, early, <<>>)
                /\ UNCHANGED <<heap, origin, users, clock>>
           ELSE LET user == UpdateFields(heap[users[id]], name, email, t)
                    r == MockUpdate(heap, users, user, UpdateAddr(id), now)
                IN  /\ UpdateAddr(id) # Nil
                    /\ users' = r.users
                    /\ heap' = Collect(r.heap, r.users, held)
                    /\ origin' = CollectOrigin([x \in Addr |-> IF r.err = NoErr /\ x = UpdateAddr(id) THEN "arg" ELSE origin[x]], r.users, held)
                    /\ ret' = HRet("UpdateUser", id,
                                   IF r.err = NoErr THEN NoErr ELSE Wrap("failed to update user", r.err), <<>>)
                    /\ clock' = now

\* DELETE /api/v1/users/{id}
HandleDeleteUser(id, db) ==
    /\ UNCHANGED <<writes, others, held, clock>>
    /\ IF id = 0 \/ db # NoErr
       THEN /\ ret' = HRet("DeleteUser", id, IF id = 0 THEN ErrIDRequired ELSE Wrap("failed to delete user", db), <<>>)
            /\ UNCHANGED <<heap, origin, users, hist>>
       ELSE LET r == MockDelete(heap, users, id)
            IN  /\ users' = r.users
                /\ heap' = Collect(r.heap, r.users, held)
                /\ origin' = CollectOrigin(origin, r.users, held)
                /\ ret' = HRet("DeleteUser", id,
                               IF r.err = NoErr THEN NoErr ELSE Wrap("failed to delete user", r.err), <<>>)
                /\ hist' = HistAfter(hist, "Delete", id, r.err)

\* GET /api/v1/users?limit=...&offset=...: a parameter that is missing reads
\* as the empty text
HandleListUsers(limitStr, offsetStr, db) ==
    /\ UNCHANGED <<heap, held, origin, users, clock, writes, others, hist>>
    /\ LET limit == ParseLimit(limitStr)
           offset == ParseOffset(offsetStr)
       IN  IF db # NoErr
           THEN ret' = [HRet("ListUsers", 0, Wrap("failed to list users", db), <<>>)
                           EXCEPT !.called = TRUE, !.limit = limit, !.offset = offset,
                                         !.query = <<limitStr, offsetStr>>]
           ELSE \E o \in Orders(DOMAIN users) :
                   LET ks == MockList(users, o, limit, offset)
                   IN  ret' = [HRet("ListUsers", 0, NoErr, [i \in 1..Len(ks) |-> users[ks[i]]])
                                  EXCEPT !.called = TRUE, !.limit = limit, !.offset = offset,
                                         !.query = <<limitStr, offsetStr>>]

NextHTTP ==
    \/ \E id \in Ids, db \in DbOutcomes : HandleGetUser(id, db)
    \/ \E badBody \in BOOLEAN, email \in Emails, name \in Names, db \in DbOutcomes, t \in clock..MaxClock :
          \E tid \in t..MaxClock : \E now \in tid..MaxClock :
             HandleCreateUser(badBody, email, name, t, tid, now, db)
    \/ \E id \in Ids, badBody \in BOOLEAN, name \in Names, email \in Emails, db \in DbOutcomes, t \in clock..MaxClock :
          \E now \in t..MaxClock : HandleUpdateUser(id, badBody, name, email, t, now, db)
    \/ \E id \in Ids, db \in DbOutcomes : HandleDeleteUser(id, db)
    \/ \E limitStr \in QueryStrs, offsetStr \in QueryStrs, db \in DbOutcomes :
          HandleListUsers(limitStr, offsetStr, db)

SpecHTTP == Init /\ [][NextHTTP]_vars


\* ---------------------------------------------- use-case calls, concurrently
\* Two goroutines, each running one call of UserUseCase on the in-memory
\* store. A call of the repository runs under its mutex, so it is one step;
\* the steps of two use-case calls interleave. callers[p] holds the call of
\* goroutine p: its arguments, the user it built or read (user), where it is
\* (pc), the error it returned (err) and whether its email was free in the
\* store when it started (free). The store gets its users before the
\* goroutines start.

Task(task, pc, id, email, name, err) ==
    [task |-> task, pc |-> pc, id |-> id, email |-> email, name |-> name,
     user |-> ZeroUser, err |-> err, free |-> MockEmailMatches(heap, users, email) = {}]

\* the store is filled before the first goroutine starts
SeedUser(v, tid, now) ==
    /\ \A p \in Callers : callers[p] = CallerStart
    /\ Create(v, tid, now)

\* go uc.CreateUser(ctx, email, name): the input validation
StartCreateUser(p, email, name) ==
    /\ callers[p] = CallerStart
    /\ callers' = [callers EXCEPT ![p] =
          IF email = "" THEN Task("CreateUser", "done", 0, email, name, ErrEmailRequired)
          ELSE IF name = "" THEN Task("CreateUser", "done", 0, email, name, ErrNameRequired)
          ELSE Task("CreateUser", "getByEmail", 0, email, name, "-")]
    /\ UNCHANGED <<heap, held, origin, users, clock, ret, writes, mutex, hist, pgvars>>

\* CreateUser: GetByEmail, then NewUser (clock reading t)
TaskGetByEmail(p, t) ==
    /\ callers[p] # CallerStart
    /\ callers[p].pc = "getByEmail"
    /\ IF MockEmailMatches(heap, users, callers[p].email) # {}
       THEN /\ callers' = [callers EXCEPT ![p].pc = "done", ![p].err = ErrAlreadyExists]
            /\ UNCHANGED clock
       ELSE /\ callers' = [callers EXCEPT ![p].pc = "create",
                              ![p].user = [ID |-> 0, Email |-> callers[p].email, Name |-> callers[p].name,
                                           CreatedAt |-> t, UpdatedAt |-> t]]
            /\ clock' = t
    /\ UNCHANGED <<heap, held, origin, users, ret, writes, mutex, hist, pgvars>>

\* CreateUser: Create, and the error it wraps
TaskCreate(p, tid, now) ==
    /\ callers[p] # CallerStart
    /\ callers[p].pc = "create"
    /\ FreeAddrs # {}
    /\ LET a == NewAddr
           r == MockCreate([heap EXCEPT ![a] = callers[p].user], users, a, tid, now)
       IN  /\ users' = r.users
           /\ heap' = Collect(r.heap, r.users, held)
           /\ origin' = CollectOrigin([origin EXCEPT ![a] = "arg"], r.users, held)
           /\ hist' = HistAfter(hist, "Create", r.heap[a].ID, r.err)
           /\ callers' = [callers EXCEPT ![p].pc = "done", ![p].user = r.heap[a], ![p].id = r.heap[a].ID,
                             ![p].err = IF r.err = NoErr THEN NoErr ELSE Wrap("failed to create user", r.err)]
    /\ clock' = now
    /\ UNCHANGED <<held, ret, writes, mutex, pgvars>>

\* go uc.UpdateUser(ctx, id, name, email)
StartUpdateUser(p, id, name, email) ==
    /\ callers[p] = CallerStart
    /\ callers' = [callers EXCEPT ![p] = Task("UpdateUser", "getByID", id, email, name, "-")]
    /\ UNCHANGED <<heap, held, origin, users, clock, ret, writes, mutex, hist, pgvars>>

\* UpdateUser: GetByID, then the field updates on the copy (clock reading t)
TaskGetByID(p, t) ==
    /\ callers[p] # CallerStart
    /\ callers[p].pc = "getByID"
    /\ LET a == MockGetByID(users, callers[p].id)
       IN  IF a = Nil
           THEN /\ callers' = [callers EXCEPT ![p].pc = "done", ![p].err = ErrNotFound]
                /\ UNCHANGED clock
           ELSE /\ callers' = [callers EXCEPT ![p].pc = "update",
                                  ![p].user = UpdateFields(heap[a], callers[p].name, callers[p].email, t)]
                /\ clock' = t
    /\ UNCHANGED <<heap, held, origin, users, ret, writes, mutex, hist, pgvars>>

\* UpdateUser: Update, and the error it wraps
TaskUpdate(p, now) ==
    /\ callers[p] # CallerStart
    /\ callers[p].pc = "update"
    /\ LET user == callers[p].user
           fresh == UpdateAddr(user.ID)
           r == MockUpdate(heap, users, user, fresh, now)
       IN  /\ user.ID \in DOMAIN users => fresh # Nil
           /\ users' = r.users
           /\ heap' = Collect(r.heap, r.users, held)
           /\ origin' = CollectOrigin([x \in Addr |-> IF r.err = NoErr /\ x = fresh THEN "arg" ELSE origin[x]], r.users, held)
           /\ callers' = [callers EXCEPT ![p].pc = "done",
                             ![p].err = IF r.err = NoErr THEN NoErr ELSE Wrap("failed to update user", r.err)]
    /\ clock' = now
    /\ UNCHANGED <<held, ret, writes, mutex, hist, pgvars>>

NextTasks ==
    \/ \E v \in LiteralVals, tid \in clock..MaxClock : \E now \in tid..MaxClock : SeedUser(v, tid, now)
    \/ \E p \in Callers, email \in Emails, name \in Names : StartCreateUser(p, email, name)
    \/ \E p \in Callers, t \in clock..MaxClock : TaskGetByEmail(p, t)
    \/ \E p \in Callers, tid \in clock..MaxClock : \E now \in tid..MaxClock : TaskCreate(p, tid, now)
    \/ \E p \in Callers, id \in Ids, name \in Names, email \in Emails : StartUpdateUser(p, id, name, email)
    \/ \E p \in Callers, t \in clock..MaxClock : TaskGetByID(p, t)
    \/ \E p \in Callers, now \in clock..MaxClock : TaskUpdate(p, now)

SpecTasks == Init /\ [][NextTasks]_vars


\* --------------------------------------------------------- LoggerMiddleware
\* Each goroutine serves one request through LoggerMiddleware(log)(next).
\* callers[p] holds the request of goroutine p: where it is (pc), the status
\* code its responseWriter has captured (wrote: the handler has written it),
\* and whether the 'HTTP Request' entry was logged (status: the code logged).

\* the status codes a wrapped handler writes
StatusCodes == {StatusOK, 404, 500}

\* start := time.Now(); ww := &responseWriter{w, http.StatusOK}
MwStart(p) ==
    /\ callers[p] = CallerStart
    /\ callers' = [callers EXCEPT ![p] =
          [task |-> "request", pc |-> "next", statusCode |-> StatusOK, wrote |-> FALSE,
           logged |-> FALSE, status |-> 0]]
    /\ UNCHANGED <<heap, held, origin, users, clock, ret, writes, mutex, hist, pgvars>>

\* next.ServeHTTP(ww, r) calls ww.WriteHeader(code), once at most
MwWriteHeader(p, code) ==
    /\ callers[p] # CallerStart
    /\ callers[p].pc = "next"
    /\ ~callers[p].wrote
    /\ callers' = [callers EXCEPT ![p].statusCode = code, ![p].wrote = TRUE]
    /\ UNCHANGED <<heap, held, origin, users, clock, ret, writes, mutex, hist, pgvars>>

\* next.ServeHTTP(ww, r) returns
MwReturn(p) ==
    /\ callers[p] # CallerStart
    /\ callers[p].pc = "next"
    /\ callers' = [callers EXCEPT ![p].pc = "log"]
    /\ UNCHANGED <<heap, held, origin, users, clock, ret, writes, mutex, hist, pgvars>>

\* next.ServeHTTP(ww, r) panics: the middleware has no deferred call, so the
\* panic leaves its function at the call
MwPanic(p) ==
    /\ callers[p] # CallerStart
    /\ callers[p].pc = "next"
    /\ callers' = [callers EXCEPT ![p].pc = "unwound"]
    /\ UNCHANGED <<heap, held, origin, users, clock, ret, writes, mutex, hist, pgvars>>

\* log.WithFields(...).Info("HTTP Request")
MwLog(p) ==
    /\ callers[p] # CallerStart
    /\ callers[p].pc = "log"
    /\ callers' = [callers EXCEPT ![p].pc = "done", ![p].logged = TRUE, ![p].status = callers[p].statusCode]
    /\ UNCHANGED <<heap, held, origin, users, clock, ret, writes, mutex, hist, pgvars>>

\* the steps of goroutine p
MwNext(p) ==
    \/ MwStart(p)
    \/ \E code \in StatusCodes : MwWriteHeader(p, code)
    \/ MwReturn(p)
    \/ MwPanic(p)
    \/ MwLog(p)

NextLog == \E p \in Callers : MwNext(p)

\* every goroutine that can take a step eventually takes one
SpecLog == Init /\ [][NextLog]_vars /\ \A p \in Callers : WF_vars(MwNext(p))

\* ---------------------------------------------------------------- claims
EmailInStore(e) == MockEmailMatches(heap, users, e) # {}

\* C1: in every state reached by Create, Update and Delete calls, no two
\* stored records have the same email.
C1_UniqueEmail ==
    \A k1, k2 \in DOMAIN users : heap[users[k1]].Email = heap[users[k2]].Email => k1 = k2

\* C2: a Create whose email is the email of a stored record returns the
\* already-exists error and leaves the map and every stored record as they were
\* (so a Create that succeeds had an email no stored record had).
C2_CreateDuplicateRejected ==
    [][ret'.op = "Create" =>
          /\ EmailInStore(ret'.arg.Email) => ret'.err = ErrAlreadyExists
          /\ ret'.err = ErrAlreadyExists => StoreView' = StoreView]_vars

\* C3: Create of a user with empty id and zero timestamps whose email is not
\* stored succeeds, leaves the passed-in user with a non-empty id and equal
\* non-zero timestamps, and GetByID of that id then yields these values.
C3_CreateAssigns ==
    [][(/\ ret'.op = "Create"
        /\ ret'.arg.ID = 0 /\ ret'.arg.CreatedAt = 0 /\ ret'.arg.UpdatedAt = 0
        /\ ~EmailInStore(ret'.arg.Email))
       => /\ ret'.err = NoErr
          /\ ret'.out.ID # 0
          /\ ret'.out.CreatedAt # 0
          /\ ret'.out.CreatedAt = ret'.out.UpdatedAt
          /\ MockGetByID(users', ret'.out.ID) # Nil
          /\ heap'[MockGetByID(users', ret'.out.ID)] =
                [ID |-> ret'.out.ID, Email |-> ret'.arg.Email, Name |-> ret'.arg.Name,
                 CreatedAt |-> ret'.out.CreatedAt, UpdatedAt |-> ret'.out.UpdatedAt]]_vars

C3_Witness ==
    /\ ret.op = "Create"
    /\ ret.err = NoErr
    /\ ret.arg.ID = 0 /\ ret.arg.CreatedAt = 0 /\ ret.arg.UpdatedAt = 0
    /\ ret.out.ID \in DOMAIN users

\* C7: Update with an id that has no record returns the not-found error,
\* inserts nothing and leaves every stored record unchanged.
C7_UpdateMissing ==
    [][(ret'.op = "Update" /\ ret'.id \notin DOMAIN users)
       => (ret'.err = ErrNotFound /\ StoreView' = StoreView)]_vars

C7_Witness ==
    /\ ret.op = "Update"
    /\ ret.err = ErrNotFound
    /\ ret.id \notin DOMAIN users
    /\ DOMAIN users # {}

\* C8 (as claimed): Update on an existing id replaces the stored name and
\* email by the supplied ones, keeps createdAt, and sets updatedAt to a value
\* greater than or equal to the previous updatedAt.
C8_UpdateNeverOlder ==
    [][(ret'.op = "Update" /\ ret'.id \in DOMAIN users)
       => /\ ret'.err = NoErr
          /\ heap'[users'[ret'.id]].Email = ret'.arg.Email
          /\ heap'[users'[ret'.id]].Name = ret'.arg.Name
          /\ heap'[users'[ret'.id]].CreatedAt = heap[users[ret'.id]].CreatedAt
          /\ heap'[users'[ret'.id]].UpdatedAt >= heap[users[ret'.id]].UpdatedAt]_vars

\* C8 (amended): Update on an existing id replaces the stored name and email
\* by the supplied ones (empty strings included), keeps createdAt, and sets
\* updatedAt to the time read during the call; that is greater than or equal
\* to the previous updatedAt whenever the previous one was not later than the
\* clock.
C8_UpdateStampsNow ==
    [][(ret'.op = "Update" /\ ret'.id \in DOMAIN users)
       => /\ ret'.err = NoErr
          /\ heap'[users'[ret'.id]].Email = ret'.arg.Email
          /\ heap'[users'[ret'.id]].Name = ret'.arg.Name
          /\ heap'[users'[ret'.id]].CreatedAt = heap[users[ret'.id]].CreatedAt
          /\ heap'[users'[ret'.id]].UpdatedAt = clock'
          /\ heap[users[ret'.id]].UpdatedAt <= clock
                => heap'[users'[ret'.id]].UpdatedAt >= heap[users[ret'.id]].UpdatedAt]_vars

C8_Witness ==
    /\ ret.op = "Update"
    /\ ret.err = NoErr
    /\ ret.arg.Email = "" /\ ret.arg.Name = ""
    /\ heap[users[ret.id]].CreatedAt < heap[users[ret.id]].UpdatedAt

\* C4: after a successful Create(u), an assignment to a field of the caller's
\* u, made without calling the store, changes no stored record.
C4_StoreOwnsRecords ==
    [][(ret'.op = "Set" /\ origin[ret'.a] = "arg") => StoreView' = StoreView]_vars

\* C5: an assignment to a field of a user that GetByID, GetByEmail or List
\* returned changes no stored record: a later GetByID yields the old values.
C5_ReadsReturnCopies ==
    [][(ret'.op = "Set" /\ origin[ret'.a] = "read") => StoreView' = StoreView]_vars

C5_Witness ==
    /\ ret.op = "Set"
    /\ origin[ret.a] = "read"
    /\ heap[ret.a].ID \in DOMAIN users
    /\ heap[users[heap[ret.a].ID]] # heap[ret.a]

\* C6: K concurrent callers that each Create a user with its own email and an
\* empty id all succeed, get pairwise distinct ids, leave K records stored,
\* and each then finds, updates and deletes its own record.
C6_ConcurrentCreates ==
    /\ \A p \in Callers : callers[p].step > 1 => callers[p].create = NoErr
    /\ \A p, q \in Callers :
          (p # q /\ callers[p].step > 1 /\ callers[q].step > 1) => callers[p].id # callers[q].id
    /\ (\A p \in Callers : callers[p].step \in 2..4) => Cardinality(DOMAIN users) = NumCallers
    /\ \A p \in Callers :
          /\ callers[p].step > 2 => callers[p].get = NoErr
          /\ callers[p].step > 3 => callers[p].update = NoErr
          /\ callers[p].step > 4 => callers[p].delete = NoErr


\* C9 (as claimed): in both stores, once Delete(id) has succeeded and until a
\* Create of that id succeeds, GetByID(id) returns a nil user and a nil error
\* and Delete(id) fails with the not-found error; Delete of an id that never
\* had a record fails with the not-found error too. (For the relational
\* adapter: whenever the statement itself does not fail.)
C9_DeletedStaysDeleted ==
    [][/\ \A id \in hist.gone :
            /\ (impl = "mem" /\ GetByID(id)) => (ret'.a = Nil /\ ret'.err = NoErr)
            /\ (impl = "mem" /\ Delete(id)) => ret'.err = ErrNotFound
            /\ (impl = "pg" /\ PgGetByID(id, NoErr)) => (pret'.nil /\ pret'.err = NoErr)
            /\ (impl = "pg" /\ PgDelete(id, NoErr)) => pret'.err = ErrNotFound
       /\ \A id \in Ids \ hist.ever :
            /\ (impl = "mem" /\ Delete(id)) => ret'.err = ErrNotFound
            /\ (impl = "pg" /\ PgDelete(id, NoErr)) => pret'.err = ErrNotFound]_vars

\* C10: in both stores, GetByID with an id that has no record and GetByEmail
\* with an email that has no record return a nil user and a nil error, and
\* neither ever returns the not-found error. (For the relational adapter: a
\* row marked deleted is no record, and the statement itself does not fail.)
C10_AbsentIsNilNil ==
    [][/\ \A id \in Ids :
            /\ (impl = "mem" /\ GetByID(id) /\ id \notin DOMAIN users)
                  => (ret'.a = Nil /\ ret'.err = NoErr)
            /\ (impl = "pg" /\ PgGetByID(id, NoErr) /\ id \notin LiveIds(rows))
                  => (pret'.nil /\ pret'.err = NoErr)
       /\ \A e \in Emails :
            /\ (impl = "mem" /\ GetByEmail(e) /\ ~EmailInStore(e))
                  => (ret'.a = Nil /\ ret'.err = NoErr)
            /\ (impl = "pg" /\ PgGetByEmail(e, NoErr) /\ PgByEmail(rows, e) = {})
                  => (pret'.nil /\ pret'.err = NoErr)
       /\ ret'.op \in {"GetByID", "GetByEmail"} => ret'.err # ErrNotFound
       /\ pret'.op \in {"GetByID", "GetByEmail"} => pret'.err # ErrNotFound]_vars

C10_Witness ==
    /\ impl = "pg"
    /\ pret = PRet("GetByID", NoErr, TRUE)
    /\ LiveIds(rows) # {}
    /\ DOMAIN rows \ LiveIds(rows) # {}


\* C11 (as claimed): in the in-memory store a record's createdAt stays what it
\* was when the record was created (no call but a Create of that id changes
\* it), and every stored record has updatedAt greater than or equal to
\* createdAt.
C11_TimestampsOrdered ==
    [][/\ \A k \in DOMAIN users \cap DOMAIN users' :
             ~(ret'.op = "Create" /\ ret'.err = NoErr /\ ret'.id = k)
                => heap'[users'[k]].CreatedAt = heap[users[k]].CreatedAt
       /\ \A k \in DOMAIN users' :
             heap'[users'[k]].UpdatedAt >= heap'[users'[k]].CreatedAt]_vars


Min(x, y) == IF x <= y THEN x ELSE y

Max(x, y) == IF x >= y THEN x ELSE y

\* the ids of the users a List of the in-memory store returned
ListedIds(h, l) == {h[l[i]].ID : i \in 1..Len(l)}

\* C12 (as claimed): with M records stored and nothing changed in between,
\* List(N, 0) followed by List(N, N), M > N, returns two pages that share no
\* record and together hold min(2N, M) distinct records, in the in-memory
\* store and in the relational adapter.
C12_PagesPartition ==
    [][\A N \in 1..MaxObj :
          (pret.op = "List" /\ pret.limit = N /\ pret.offset = 0 /\ BothList(N, N))
             => /\ Cardinality(DOMAIN users) > N
                   => /\ ListedIds(heap, ret.list) \cap ListedIds(heap, ret'.list) = {}
                      /\ Cardinality(ListedIds(heap, ret.list) \cup ListedIds(heap, ret'.list))
                            = Min(2 * N, Cardinality(DOMAIN users))
                /\ Cardinality(LiveIds(rows)) > N
                   => /\ Range(pret.list) \cap Range(pret'.list) = {}
                      /\ Cardinality(Range(pret.list) \cup Range(pret'.list))
                            = Min(2 * N, Cardinality(LiveIds(rows)))]_vars


\* C13: List(limit, offset) of the in-memory store holding M records returns
\* no error and exactly min(max(limit, 0), max(0, M - max(offset, 0)))
\* records, each a different record of the store, for negative, zero and
\* too large limits and offsets alike.
C13_ListCount ==
    [][\A limit \in -1..MaxObj, offset \in -1..MaxObj :
          (ret'.op = "List" /\ List(limit, offset))
             => /\ ret'.err = NoErr
                /\ Len(ret'.list) = Min(Max(limit, 0),
                                        Max(0, Cardinality(DOMAIN users) - Max(offset, 0)))
                /\ \A i \in 1..Len(ret'.list) : ret'.list[i] \in Range(users)
                /\ \A i, j \in 1..Len(ret'.list) : ret'.list[i] = ret'.list[j] => i = j]_vars

C13_Witness ==
    /\ ret.op = "List"
    /\ Len(ret.list) = 1
    /\ Cardinality(DOMAIN users) = 2


\* C14: in the in-memory store no Create, Update or Delete is inside the
\* locked section while any other call is inside it; reads may be inside it
\* together.
C14_WritersExclude ==
    \A p, q \in Callers :
       (p # q /\ callers[p].in /\ callers[q].in)
          => (~StepWrites(callers[p].step) /\ ~StepWrites(callers[q].step))

C14_Witness ==
    \E p, q \in Callers :
       /\ p # q
       /\ callers[p].in /\ callers[q].in
       /\ callers[p].step = 2 /\ callers[q].step = 2

\* C15: under fair scheduling every call to the in-memory store returns and
\* every caller gets its turn: whatever step a goroutine is at, it completes
\* it, the calls that return the already-exists or the not-found error
\* included.
C15_EveryCallReturns ==
    \A p \in Callers : \A k \in 1..4 : (callers[p].step = k) ~> (callers[p].step = k + 1)

C15_Witness ==
    /\ \A p \in Callers : callers[p].step = 5
    /\ \E p \in Callers : callers[p].create = ErrAlreadyExists
    /\ \E p \in Callers : callers[p].update = ErrNotFound


\* a record of the in-memory store and a row of the users table that carry
\* the same email and name
SameUser(u, row) == u.Email = row.Email /\ u.Name = row.Name

\* C16 (as claimed): when the same calls are issued one after another to the
\* in-memory store and to the relational adapter, each call has the same
\* outcome in both: the same error or success, a nil result in both or in
\* neither, and the same email and name in the users returned (for List: the
\* same number of users, each one found in the other store's answer too).
C16_SameOutcome ==
    [][/\ ret'.err = pret'.err
       /\ ret'.op \in {"GetByID", "GetByEmail"} => ((ret'.a = Nil) <=> pret'.nil)
       /\ (ret'.op = "GetByID" /\ ret'.a # Nil /\ ~pret'.nil)
             => SameUser(heap[ret'.a], rows[ret'.id])
       /\ (ret'.op = "GetByEmail" /\ ret'.a # Nil /\ ~pret'.nil)
             => \E k \in PgByEmail(rows, heap[ret'.a].Email) : SameUser(heap[ret'.a], rows[k])
       /\ ret'.op = "List"
             => /\ Len(ret'.list) = Len(pret'.list)
                /\ \A i \in 1..Len(ret'.list) :
                      \E j \in 1..Len(pret'.list) : SameUser(heap[ret'.list[i]], rows[pret'.list[j]])
                /\ \A j \in 1..Len(pret'.list) :
                      \E i \in 1..Len(ret'.list) : SameUser(heap[ret'.list[i]], rows[pret'.list[j]])]_vars


\* C17 (as claimed): in the relational adapter a Create whose insert is refused
\* by the unique index on email returns the already-exists error of the
\* in-memory store, never the database's own error, whether the email came
\* in before the call or after its lookup.
C17_DuplicateIsAlreadyExists ==
    [][\A p \in Callers :
          (/\ impl = "pg"
           /\ PgCreateInsert(p, NoErr)
           /\ EmailTaken(rows, pgcalls[p].user.Email, pgcalls[p].user.ID))
             => (pret'.err = ErrAlreadyExists /\ pret'.err # ErrDuplicateKey)]_vars


\* C18 (as claimed): in the relational adapter an Update whose row is not
\* there when its write statement runs (a Delete ran after the existence
\* check) returns the not-found error and leaves no live row of that id; no
\* step of an Update adds a row or brings a deleted row back.
C18_UpdateNeverRestores ==
    [][\A p \in Callers :
          (impl = "pg" /\ PgUpdateSave(p, NoErr))
             => /\ pgcalls[p].user.ID \notin LiveIds(rows)
                   => (pret'.err = ErrNotFound /\ pgcalls[p].user.ID \notin LiveIds(rows'))
                /\ LiveIds(rows') \subseteq LiveIds(rows)
                /\ DOMAIN rows' = DOMAIN rows]_vars


\* C19 (as claimed): in the relational adapter a statement that fails with a
\* backing-store error ends the call with that error: the call does not go
\* on as if no row matched, and returns neither the not-found error nor a
\* nil result with a nil error.
C19_FailurePropagates ==
    [][impl = "pg" =>
          /\ \A p \in Callers :
                /\ \A v \in LiteralVals, now \in clock..MaxClock :
                      PgCreateLookup(p, v, ErrDB, now)
                         => (pgcalls'[p].pc = "idle" /\ pret'.op = "Create" /\ pret'.err = ErrDB)
                /\ \A v \in UpdateArgs, now \in clock..MaxClock :
                      PgUpdateLookup(p, v, ErrDB, now)
                         => (pgcalls'[p].pc = "idle" /\ pret'.op = "Update" /\ pret'.err = ErrDB)
                /\ PgCreateInsert(p, ErrDB) => pret'.err = ErrDB
                /\ PgUpdateSave(p, ErrDB) => pret'.err = ErrDB
          /\ \A id \in Ids :
                /\ PgGetByID(id, ErrDB) => pret'.err = ErrDB
                /\ PgDelete(id, ErrDB) => pret'.err = ErrDB
          /\ \A e \in Emails : PgGetByEmail(e, ErrDB) => pret'.err = ErrDB]_vars


\* C20: UpdateUser on an existing user changes the stored name only when the
\* name it is given is non-empty, and the stored email only when the email it
\* is given is non-empty: a field given as the empty string keeps its stored
\* value.
C20_EmptyFieldKeeps ==
    [][\A id \in DOMAIN users, name \in Names, email \in Emails, t \in clock..MaxClock, now \in clock..MaxClock :
          (ret'.op = "UpdateUser" /\ UpdateUser(id, name, email, t, now))
             => /\ id \in DOMAIN users'
                /\ heap'[users'[id]].Name # heap[users[id]].Name => name # ""
                /\ heap'[users'[id]].Email # heap[users[id]].Email => email # ""
                /\ name = "" => heap'[users'[id]].Name = heap[users[id]].Name
                /\ email = "" => heap'[users'[id]].Email = heap[users[id]].Email]_vars

\* an UpdateUser given an empty name and a new email has returned: the stored
\* email is the new one and the stored name, a non-empty one, is the old one
C20_Witness ==
    /\ ret.op = "UpdateUser"
    /\ ret.err = NoErr
    /\ ret.arg.Name = ""
    /\ ret.arg.Email # ""
    /\ ret.out.Name # ""
    /\ ret.out.Email # ret.arg.Email
    /\ ret.id \in DOMAIN users
    /\ heap[users[ret.id]].Name = ret.out.Name
    /\ heap[users[ret.id]].Email = ret.arg.Email


\* C21 (as claimed): a request for a user id that does not exist is answered
\* with status 404, a create request for an email that already exists with
\* 409, and every other failure with a 5xx status.
C21_ErrorStatus ==
    ret.op \in HandlerOps =>
       /\ (ret.op = "GetUser" /\ ret.err = ErrNotFound) => ret.code = 404
       /\ (ret.op = "CreateUser" /\ ret.err = ErrAlreadyExists) => ret.code = 409
       /\ (\E m \in {"failed to get user", "failed to create user", "failed to update user",
                     "failed to delete user", "failed to list users"} : ret.err = Wrap(m, ErrDB))
             => (ret.code >= 500 /\ ret.code <= 599)


\* the number a query parameter's text denotes, when it denotes one
IsNumber(s) == s \in {<<"0">>, <<"1">>, <<"-", "1">>, <<"1", "0">>}

NumberOf(s) ==
    IF s = <<"0">> THEN 0
    ELSE IF s = <<"1">> THEN 1
    ELSE IF s = <<"-", "1">> THEN 0 - 1
    ELSE 10

\* C22: every request to the list endpoint calls ListUsers with limit > 0 and
\* offset >= 0: a missing, non-numeric or non-positive limit becomes 10, a
\* missing, non-numeric or negative offset becomes 0, and a valid value is
\* passed through unchanged.
C22_ListArgsNormalised ==
    ret.op = "ListUsers" =>
       LET limitStr == ret.query[1]
           offsetStr == ret.query[2]
       IN  /\ ret.called
           /\ ret.limit > 0
           /\ ret.offset >= 0
           /\ ret.limit = IF IsNumber(limitStr) /\ NumberOf(limitStr) > 0 THEN NumberOf(limitStr) ELSE 10
           /\ ret.offset = IF IsNumber(offsetStr) /\ NumberOf(offsetStr) >= 0 THEN NumberOf(offsetStr) ELSE 0

\* a list request with limit=-1 and offset=1 has been answered
C22_Witness ==
    /\ ret.op = "ListUsers"
    /\ ret.query = <<(<<"-", "1">>), (<<"1">>)>>
    /\ ret.limit = 10
    /\ ret.offset = 1
    /\ ret.err = NoErr


\* C23 (as claimed): Update of an existing id with an email that a different
\* live record holds succeeds and stores that email, in the in-memory store
\* and in the relational adapter alike.
C23_UpdateSkipsUniqueness ==
    [][\A user \in UpdateArgs, now \in clock..MaxClock :
          (ret'.op = "Update" /\ BothUpdate(user, now))
             => /\ (/\ user.ID \in DOMAIN users
                    /\ \E k \in DOMAIN users \ {user.ID} : heap[users[k]].Email = user.Email)
                      => (/\ ret'.err = NoErr
                          /\ user.ID \in DOMAIN users'
                          /\ heap'[users'[user.ID]].Email = user.Email)
                /\ (/\ user.ID \in LiveIds(rows)
                    /\ \E k \in LiveIds(rows) \ {user.ID} : rows[k].Email = user.Email)
                      => (/\ pret'.err = NoErr
                          /\ user.ID \in LiveIds(rows')
                          /\ rows'[user.ID].Email = user.Email)]_vars


\* C24 (as claimed): a successful Create on the in-memory store adds exactly
\* one record and leaves every record that was stored as it was, under the
\* id it had.
C24_CreateNeverReplaces ==
    [][(ret'.op = "Create" /\ ret'.err = NoErr)
          => /\ Cardinality(DOMAIN users') = Cardinality(DOMAIN users) + 1
             /\ \A k \in DOMAIN users : k \in DOMAIN users' /\ heap'[users'[k]] = heap[users[k]]]_vars

\* C25 (as claimed): a Create on the in-memory store that fails with
\* AlreadyExists leaves the user it was passed with the id and the timestamps
\* it had before the call.
C25_FailedCreateLeavesUser ==
    (ret.op = "Create" /\ ret.err = ErrAlreadyExists)
       => /\ ret.out.ID = ret.arg.ID
          /\ ret.out.CreatedAt = ret.arg.CreatedAt
          /\ ret.out.UpdatedAt = ret.arg.UpdatedAt


\* C26 (as claimed): in both stores, once Delete(id) has succeeded the email of
\* the deleted user is free: a Create with that email that follows succeeds,
\* and the record GetByEmail then finds is the new one.
C26_DeletedEmailIsFree ==
    [][\A v \in LiteralVals, tid \in clock..MaxClock, now \in clock..MaxClock :
          (/\ ret.op = "Delete" /\ ret.err = NoErr /\ pret.err = NoErr
           /\ ret'.op = "Create"
           /\ v.Email = rows[ret.id].Email
           /\ BothCreate(v, tid, now))
             => /\ MockEmailMatches(heap, users, v.Email) = {}
                      => (/\ ret'.err = NoErr
                          /\ MockEmailMatches(heap', users', v.Email) = {ret'.id})
                /\ PgByEmail(rows, v.Email) = {}
                      => (/\ pret'.err = NoErr
                          /\ PgByEmail(rows', v.Email) = {ret'.id})]_vars


\* the goroutines that have run CreateUser(email, ...) to its end
CreatedWith(email) ==
    {p \in Callers : callers[p] # CallerStart /\ callers[p].task = "CreateUser"
                       /\ callers[p].pc = "done" /\ callers[p].email = email}

\* C27: when two CreateUser calls with the same email (one the store does not
\* hold when they start) run concurrently on the in-memory store, then however
\* their GetByEmail and Create steps interleave, one call succeeds, the other
\* returns an error, and the store holds one record with that email.
C27_OneCreateUserWins ==
    \A email \in Emails \ {""} :
       (/\ CreatedWith(email) = Callers
        /\ \E p \in Callers : callers[p].free /\ callers[p].name # "")
          => /\ Cardinality({p \in Callers : callers[p].err = NoErr}) = 1
             /\ Cardinality({p \in Callers : callers[p].err # NoErr}) = NumCallers - 1
             /\ Cardinality(MockEmailMatches(heap, users, email)) = 1

\* both calls found the email free and went on to Create: one was stored, the
\* other was turned down by Create itself
C27_Witness ==
    /\ CreatedWith("a") = Callers
    /\ \A p \in Callers : callers[p].free
    /\ \E p \in Callers : callers[p].err = NoErr
    /\ \E p \in Callers : callers[p].err = Wrap("failed to create user", ErrAlreadyExists)


\* the goroutines that have run UpdateUser(id, ...) to its end without error
UpdatedOk(id) ==
    {p \in Callers : callers[p] # CallerStart /\ callers[p].task = "UpdateUser"
                       /\ callers[p].pc = "done" /\ callers[p].id = id /\ callers[p].err = NoErr}

\* C28 (as claimed): when two UpdateUser calls on the same existing id run
\* concurrently, one changing only the name and the other only the email,
\* then however their GetByID and Update steps interleave, the stored record
\* ends with the new name and the new email.
C28_NoLostUpdate ==
    \A id \in DOMAIN users : \A p, q \in UpdatedOk(id) :
       (/\ callers[p].name # "" /\ callers[p].email = ""
        /\ callers[q].name = "" /\ callers[q].email # "")
          => /\ heap[users[id]].Name = callers[p].name
             /\ heap[users[id]].Email = callers[q].email


\* C29: in the in-memory store a successful Update(u) or Delete(id) changes
\* the record stored under that id and no other: the other ids are the same
\* ones, and each of their records keeps its id, email, name, createdAt and
\* updatedAt.
C29_OthersUntouched ==
    [][(ret'.op \in {"Update", "Delete"} /\ ret'.err = NoErr)
          => /\ DOMAIN users' \ {ret'.id} = DOMAIN users \ {ret'.id}
             /\ \A k \in DOMAIN users \ {ret'.id} : heap'[users'[k]] = heap[users[k]]]_vars

\* a Delete has succeeded while the store held another record
C29_Witness ==
    /\ ret.op = "Delete"
    /\ ret.err = NoErr
    /\ DOMAIN users \ {ret.id} # {}

\* an Update has succeeded while the store held another record
C29_WitnessUpdate ==
    /\ ret.op = "Update"
    /\ ret.err = NoErr
    /\ DOMAIN users \ {ret.id} # {}


\* C30 (as claimed): LoggerMiddleware emits its 'HTTP Request' entry for every
\* request it wraps, a request whose wrapped handler panics included.
C30_EveryRequestLogged ==
    \A p \in Callers :
       (callers[p] # CallerStart) ~> (callers[p] # CallerStart /\ callers[p].logged)

====
